---- MODULE Spec2Model ----
(***************************************************************************)
(* Model of the kiss3d video recorder (src/src/lib.rs): the Recorder       *)
(* struct, its constructor, init, snap and Drop, together with the part of *)
(* the libav toolkit state those calls read and write (encoder delay       *)
(* buffer, container output, scaler context, allocation counts).           *)
(***************************************************************************)
EXTENDS Integers, Naturals, Sequences, FiniteSets, TLC

\* ---------------------------------------------------------------- bounds
MaxSnaps == 2
MaxDelay == 2
MaxDrops == 2
MaxDim == 2
MaxThreads == 3
MaxNew == 2
MaxBufLen == 6
MaxStride == 2
MaxRows == 3
MaxFlips == 2

\* ------------------------------------------------------ program constants
PIX_FMT_YUV420P == 0
PIX_FMT_RGB24 == 2
AV_CODEC_ID_NONE == 0
AV_CODEC_ID_MPEG1VIDEO == 1

NULL == "null"
NoPanic == "none"

\* ------------------------------------------------------ enumerated inputs
Paths == {"out.mp4", "out.xyz"}
TimeBases == {<<1, 60>>, <<1, 25>>}
StreamTimeBases == {<<1, 25>>, <<1, 90000>>}
PixFmts == {PIX_FMT_YUV420P, PIX_FMT_RGB24}
WinDims == {<<2, 2>>, <<4, 2>>}
ResKinds == {"format_context", "stream", "codec_context", "output_file",
             "scale_context", "frame", "tmp_frame"}
InitFailPoints == {"none", "outctx", "codec", "stream", "open", "frame",
                   "tmp_frame", "avio", "header"}

\* --------------------------------------------------------- toolkit models
\* av_guess_format on the file name: the container named by the extension.
GuessFormat(path) ==
    IF path = "out.mp4" THEN "mp4" ELSE NULL

\* AVOutputFormat.video_codec of a container format.
VideoCodec(fmt) ==
    IF fmt = "mpeg" THEN AV_CODEC_ID_MPEG1VIDEO
    ELSE IF fmt = "mp4" THEN 13
    ELSE AV_CODEC_ID_NONE

\* avformat_alloc_output_context2(&fmt, NULL, name, path): the format is the
\* named one, else the one guessed from the path; NULL when there is none or
\* the allocation fails.
AllocOutputContext2(name, path, ok) ==
    IF ~ok THEN NULL
    ELSE IF name # NULL THEN name
    ELSE GuessFormat(path)

\* av_rescale_q(a, bq, cq) for a >= 0: a * bq / cq rounded to nearest, halves
\* away from zero (AV_ROUND_NEAR_INF).
av_rescale_q(a, bq, cq) ==
    LET b == bq[1] * cq[2]
        c == cq[1] * bq[2]
    IN  (a * b + (c \div 2)) \div c

\* ------------------------------------------------------------------ state
\* rec .. lastCall: one recording session.  req: the width and height the
\* constructor was called with.  reg: the process-wide registration guard and
\* the threads constructing recorders.  flip: a buffer under vflip.
VARIABLES rec, av, pc, unwinding, panicMsg, drops, lastCall, req, reg, flip

vars == <<rec, av, pc, unwinding, panicMsg, drops, lastCall, req, reg, flip>>

session == <<rec, av, pc, unwinding, panicMsg, drops, lastCall>>

\* (variant: the dimension stored as given)
RoundEvenNot(n) == n

\* Width and height must be a multiple of two.
RoundEven(n) == IF n % 2 = 0 THEN n ELSE n + 1

\* Recorder::new_with_params
NewRecorder(path, width, height, time_base, pix_fmt) ==
    [ initialized      |-> FALSE,
      curr_frame_index |-> 0,
      width            |-> RoundEven(width),
      height           |-> RoundEven(height),
      time_base        |-> time_base,
      pix_fmt          |-> pix_fmt,
      frame            |-> NULL,
      tmp_frame        |-> NULL,
      context          |-> NULL,
      scale_context    |-> NULL,
      format_context   |-> NULL,
      video_st         |-> NULL,
      path             |-> path ]

\* The null SwsContext pointer, and what a container write appends.
NullSws == [null |-> TRUE, srcW |-> 0, srcH |-> 0, srcFmt |-> 0,
            dstW |-> 0, dstH |-> 0, dstFmt |-> 0]

Header == [kind |-> "header", pts |-> 0]

Trailer == [kind |-> "trailer", pts |-> 0]

Packet(pts) == [kind |-> "packet", pts |-> pts]

\* The toolkit objects the session creates and drives, before any call.
NewToolkit ==
    [ acq         |-> [k \in ResKinds |-> 0],
      rel         |-> [k \in ResKinds |-> 0],
      oformat     |-> NULL,
      ctx_tb      |-> <<0, 1>>,
      st_tb       |-> <<0, 1>>,
      ctx_pix_fmt |-> -1,
      frame_fmt   |-> -1,
      buf_fmt     |-> -1,
      codec_open  |-> FALSE,
      codec_opens |-> 0,
      frame_pts   |-> 0,
      buffered    |-> <<>>,
      submitted   |-> <<>>,
      null_submits |-> 0,
      output      |-> <<>>,
      write_errors |-> 0,
      drain_writes |-> 0,
      sws         |-> NullSws,
      sws_built   |-> 0,
      sws_built_in_snap |-> 0,
      wins        |-> {} ]

\* The state of the parts a specification does not exercise.
NoReq == <<0, 0>>

Threads == 1..MaxThreads

NoThreads ==
    [once |-> "INCOMPLETE", registered |-> 0,
     tpc |-> [t \in Threads |-> "idle"], made |-> [t \in Threads |-> 0]]

NoFlip ==
    [vec |-> <<>>, orig |-> <<>>, width |-> 0, height |-> 0, flips |-> 0,
     panic |-> FALSE]

Init ==
    /\ \E path \in Paths, w \in 1..MaxDim, h \in 1..MaxDim,
          tb \in TimeBases, pf \in PixFmts :
            rec = NewRecorder(path, w, h, tb, pf)
    /\ av = NewToolkit
    /\ pc = "live"
    /\ unwinding = FALSE
    /\ panicMsg = NoPanic
    /\ drops = 0
    /\ lastCall = "new"
    /\ req = NoReq
    /\ reg = NoThreads
    /\ flip = NoFlip

\* ------------------------------------------------------------ Recorder::init
\* A call in progress: the Recorder fields, the toolkit state and the panic
\* message of the call ("none" while it has not panicked).
Call(r, a) == [rec |-> r, av |-> a, panic |-> NoPanic]

Panic(m, msg) == [m EXCEPT !.panic = msg]

Acquire(a, kind) == [a EXCEPT !.acq[kind] = @ + 1]

Release(a, kind) == [a EXCEPT !.rel[kind] = @ + 1]

\* (variant: init without its early return)
AlreadyInitializedNever(r) == FALSE

\* The early return of init.
AlreadyInitialized(r) == r.initialized

\* Lines 248-264: guess the container from the path, default to MPEG.
\* The fallback is guarded by self.format_context, which is still the null
\* pointer the constructor stored; the context of the first call stays in fmt
\* until the second call overwrites it.
InitOutputContext(m, in) ==
    LET guessed == AllocOutputContext2(NULL, m.rec.path, TRUE)
        a1 == IF guessed # NULL THEN Acquire(m.av, "format_context") ELSE m.av
        useDefault == m.rec.format_context = NULL
        fmt == IF useDefault
               THEN AllocOutputContext2("mpeg", m.rec.path, in.fail # "outctx")
               ELSE guessed
        a2 == IF useDefault /\ fmt # NULL THEN Acquire(a1, "format_context") ELSE a1
        m2 == [m EXCEPT !.av = [a2 EXCEPT !.oformat = fmt],
                        !.rec.format_context = fmt]
    IN  IF fmt = NULL THEN Panic(m2, "Unable to create the output context.")
        ELSE m2

\* Lines 266-296: codec lookup, stream and codec context.
InitStream(m, in) ==
    IF m.panic # NoPanic THEN m
    ELSE IF VideoCodec(m.av.oformat) = AV_CODEC_ID_NONE
    THEN Panic(m, "The selected output container does not support video encoding.")
    ELSE IF in.fail = "codec" THEN Panic(m, "Codec not found.")
    ELSE IF in.fail = "stream"
    THEN Panic(m, "Failed to allocate the video stream.")
    ELSE [m EXCEPT !.rec.video_st = "stream",
                   !.rec.context = "codec_context",
                   !.av = Acquire(Acquire(@, "stream"), "codec_context")]

\* sws_getContext: a new scaler context for the given geometry and formats,
\* NULL when the toolkit cannot build one.
sws_getContext(srcW, srcH, srcFmt, dstW, dstH, dstFmt, ok) ==
    IF ok THEN [null |-> FALSE, srcW |-> srcW, srcH |-> srcH, srcFmt |-> srcFmt,
                dstW |-> dstW, dstH |-> dstH, dstFmt |-> dstFmt]
    ELSE NullSws

\* Lines 298-302: the scaling context built by init; its destination format
\* argument is the container's video codec id.
InitScaleContext(m, in) ==
    IF m.panic # NoPanic THEN m
    ELSE LET c == sws_getContext(m.rec.width, m.rec.height, PIX_FMT_RGB24,
                                 m.rec.width, m.rec.height,
                                 VideoCodec(m.av.oformat), in.swsInitOk)
         IN  IF c.null
             THEN [m EXCEPT !.rec.scale_context = NULL, !.av.sws = NullSws]
             ELSE [m EXCEPT !.rec.scale_context = "sws",
                            !.av = [Acquire(@, "scale_context") EXCEPT
                                      !.sws = c,
                                      !.sws_built = @ + 1,
                                      !.sws_built_in_snap =
                                          IF in.fromSnap THEN @ + 1 ELSE @]]

\* Lines 304-335: codec parameters, then avcodec_open2.
InitCodec(m, in) ==
    IF m.panic # NoPanic THEN m
    ELSE LET m1 == [m EXCEPT !.av.ctx_tb = m.rec.time_base,
                             !.av.st_tb = m.rec.time_base,
                             !.av.ctx_pix_fmt = m.rec.pix_fmt]
         IN  IF in.fail = "open" THEN Panic(m1, "Could not open the codec.")
             ELSE [m1 EXCEPT !.av.codec_open = TRUE,
                             !.av.codec_opens = @ + 1]

\* Lines 337-376: the destination frame, its buffer and the temporary frame.
InitFrames(m, in) ==
    IF m.panic # NoPanic THEN m
    ELSE IF in.fail = "frame"
    THEN Panic(m, "Could not allocate the video frame.")
    ELSE LET m1 == [m EXCEPT !.rec.frame = "frame",
                             !.av = [Acquire(@, "frame") EXCEPT
                                       !.frame_fmt = m.av.ctx_pix_fmt,
                                       !.frame_pts = 0,
                                       !.buf_fmt = m.rec.pix_fmt]]
         IN  IF in.fail = "tmp_frame"
             THEN Panic(m1, "Could not allocate the video frame.")
             ELSE [m1 EXCEPT !.rec.tmp_frame = "tmp_frame",
                             !.av = Acquire(@, "tmp_frame")]

\* (variant: the output file is opened but no header is written)
InitOutputNoHeader(m, in) ==
    IF m.panic # NoPanic THEN m
    ELSE IF in.fail = "avio" THEN Panic(m, "Failed to open the output file.")
    ELSE [m EXCEPT !.av = [Acquire(@, "output_file") EXCEPT !.st_tb = in.stb]]

\* Lines 378-388: open the output file and write the container header.  The
\* muxer settles the stream's time base when it writes the header.
InitOutput(m, in) ==
    IF m.panic # NoPanic THEN m
    ELSE IF in.fail = "avio" THEN Panic(m, "Failed to open the output file.")
    ELSE LET m1 == [m EXCEPT !.av = Acquire(@, "output_file")]
         IN  IF in.fail = "header"
             THEN Panic(m1, "Failed to open the output file.")
             ELSE [m1 EXCEPT !.av.output = Append(@, Header),
                             !.av.st_tb = in.stb]

\* Recorder::init, lines 239-396.
init(m, in) ==
    IF AlreadyInitialized(m.rec) THEN m
    ELSE LET done == InitOutput(InitFrames(InitCodec(InitScaleContext(
                         InitStream(InitOutputContext(m, in), in), in), in), in), in)
         IN  IF done.panic # NoPanic THEN done
             ELSE [done EXCEPT !.rec.initialized = TRUE]

\* The outcomes of the toolkit calls init makes.
InitInputs(fromSnap) ==
    [fail : InitFailPoints, swsInitOk : BOOLEAN, stb : StreamTimeBases,
     fromSnap : {fromSnap}]

\* ------------------------------------------------------------ Recorder::snap
\* (variant: the rescaled tick assigned instead of added)
NextPtsAssigned(pts, ctx_tb, st_tb) == av_rescale_q(1, ctx_tb, st_tb)

\* Line 178: the frame's pts after one more capture.
NextPts(pts, ctx_tb, st_tb) == pts + av_rescale_q(1, ctx_tb, st_tb)

\* sws_getCachedContext: the given context when it was built for exactly these
\* parameters; otherwise the given context is freed and a new one is built.
SameSws(c, srcW, srcH, srcFmt, dstW, dstH, dstFmt) ==
    /\ ~c.null
    /\ c.srcW = srcW /\ c.srcH = srcH /\ c.srcFmt = srcFmt
    /\ c.dstW = dstW /\ c.dstH = dstH /\ c.dstFmt = dstFmt

sws_getCachedContext(a, srcW, srcH, srcFmt, dstW, dstH, dstFmt, ok) ==
    IF SameSws(a.sws, srcW, srcH, srcFmt, dstW, dstH, dstFmt) THEN a
    ELSE LET freed == IF a.sws.null THEN a ELSE Release(a, "scale_context")
             c == sws_getContext(srcW, srcH, srcFmt, dstW, dstH, dstFmt, ok)
         IN  IF c.null THEN [freed EXCEPT !.sws = NullSws]
             ELSE [Acquire(freed, "scale_context") EXCEPT
                     !.sws = c,
                     !.sws_built = @ + 1,
                     !.sws_built_in_snap = @ + 1]

\* avcodec_encode_video2 on an open encoder.  A frame joins the delay buffer; a
\* null frame asks for what is still buffered.  One call emits at most one
\* packet, the oldest buffered one; with a frame the encoder may hold it back
\* while its delay buffer has room.
EncodeVideo2(a, frame, hold) ==
    LET buf == IF frame = NULL THEN a.buffered
               ELSE Append(a.buffered, a.frame_pts)
        got == IF frame = NULL THEN buf # <<>>
               ELSE ~(hold /\ Len(buf) <= MaxDelay)
        a1 == [a EXCEPT !.buffered = IF got THEN Tail(buf) ELSE buf,
                        !.submitted = IF frame = NULL THEN @
                                      ELSE Append(@, a.frame_pts),
                        !.null_submits = IF frame = NULL THEN @ + 1 ELSE @]
    IN  [av |-> a1, got_output |-> got,
         pkt |-> IF got THEN Packet(Head(buf)) ELSE Packet(-1)]

\* av_interleaved_write_frame: the packet is appended to the container output
\* unless the write fails.
WriteFrame(a, pkt, ok) ==
    IF ok THEN [a EXCEPT !.output = Append(@, pkt)]
    ELSE [a EXCEPT !.write_errors = @ + 1]

\* Lines 177-208: timestamp, temporary frame and colour conversion.
SnapConvert(m, in) ==
    LET a1 == [m.av EXCEPT !.frame_pts = NextPts(@, m.av.ctx_tb, m.av.st_tb),
                           !.wins = @ \cup {in.win}]
        r1 == [m.rec EXCEPT !.curr_frame_index = @ + 1]
        a2 == sws_getCachedContext(a1, in.win[1], in.win[2], PIX_FMT_RGB24,
                                   r1.width, r1.height, PIX_FMT_YUV420P,
                                   in.swsOk)
        r2 == [r1 EXCEPT !.scale_context = IF a2.sws.null THEN NULL ELSE "sws"]
        m2 == [m EXCEPT !.rec = r2, !.av = a2]
    IN  \* sws_scale through a null context is undefined: it faults, or it
        \* returns an error that is discarded.
        IF a2.sws.null /\ in.nullScale = "fault" THEN Panic(m2, "SIGSEGV")
        ELSE m2

\* Lines 211-232: encode the frame and write the packet, if any.
SnapEncode(m, in) ==
    IF m.panic # NoPanic THEN m
    ELSE IF ~in.encOk THEN Panic(m, "Error encoding frame.")
    ELSE LET e == EncodeVideo2(m.av, m.rec.frame, in.hold)
         IN  IF e.got_output
             THEN [m EXCEPT !.av = WriteFrame(e.av, e.pkt, in.writeOk)]
             ELSE [m EXCEPT !.av = e.av]

\* Recorder::snap, lines 152-233.
snap(m, in) ==
    LET m1 == init(m, in.init)
    IN  IF m1.panic # NoPanic THEN m1
        ELSE SnapEncode(SnapConvert(m1, in), in)

\* One fixed outcome stands for all when the call does not consult them.
OneInitInput(fromSnap) ==
    [fail |-> "none", swsInitOk |-> TRUE, stb |-> <<1, 90000>>,
     fromSnap |-> fromSnap]

InitInputsFor(r, fromSnap) ==
    IF r.initialized THEN {OneInitInput(fromSnap)} ELSE InitInputs(fromSnap)

SnapInputs(r) ==
    [init : InitInputsFor(r, TRUE), win : WinDims, swsOk : BOOLEAN,
     nullScale : {"fault", "error"}, encOk : BOOLEAN, hold : BOOLEAN,
     writeOk : BOOLEAN]

\* ---------------------------------------------------------------- actions
\* How a call that panicked or faulted leaves the caller: a panic unwinds and
\* the unwinding drops the Recorder; a fault ends the process.
AfterCall(m) ==
    /\ rec' = m.rec
    /\ av' = m.av
    /\ pc' = IF m.panic = NoPanic THEN "live"
             ELSE IF m.panic = "SIGSEGV" THEN "aborted"
             ELSE "unwinding"
    /\ unwinding' = (m.panic # NoPanic /\ m.panic # "SIGSEGV")
    /\ panicMsg' = m.panic

InitCall ==
    /\ pc = "live"
    /\ \E in \in InitInputsFor(rec, FALSE) : AfterCall(init(Call(rec, av), in))
    /\ lastCall' = "init"
    /\ UNCHANGED <<drops, req, reg, flip>>

SnapCall ==
    /\ pc = "live"
    /\ rec.curr_frame_index < MaxSnaps
    /\ \E in \in SnapInputs(rec) : AfterCall(snap(Call(rec, av), in))
    /\ lastCall' = "snap"
    /\ UNCHANGED <<drops, req, reg, flip>>

\* ------------------------------------------------------- Drop for Recorder
\* (variant: drop without its guard)
DropGuardAlways(r) == TRUE

\* Line 401: teardown runs only for an initialized recorder.
DropGuard(r) == r.initialized

\* Lines 400-401: drop is entered when the owner lets go of the value, when a
\* panic of init or snap unwinds through the owner, or once more on a value
\* that was already dropped.
DropEnter ==
    /\ pc \in {"live", "unwinding", "dropped"}
    /\ drops < MaxDrops
    /\ drops' = drops + 1
    /\ pc' = IF DropGuard(rec) THEN "drain" ELSE "dropped"
    /\ lastCall' = "drop"
    /\ UNCHANGED <<rec, av, unwinding, panicMsg, req, reg, flip>>

\* A panic inside drop: it aborts the process when drop runs during
\* unwinding, otherwise it leaves drop with the rest of the teardown skipped.
DropPanic(msg) ==
    /\ panicMsg' = msg
    /\ pc' = IF unwinding THEN "aborted" ELSE "dropped"
    /\ UNCHANGED <<rec, unwinding, drops, lastCall>>

\* (variant: the loop submits the encode frame again instead of a null frame)
DrainLoopResubmit(a, writeOk) ==
    LET e == EncodeVideo2(a, "frame", FALSE)
    IN  IF e.got_output
        THEN [av |-> [WriteFrame(e.av, e.pkt, writeOk) EXCEPT
                        !.drain_writes = @ + 1],
              got_output |-> TRUE]
        ELSE [av |-> e.av, got_output |-> FALSE]

\* (variant: the loop stops after its first iteration, written or not)
DrainLoopOnce(a, writeOk) ==
    LET e == EncodeVideo2(a, NULL, FALSE)
    IN  IF e.got_output
        THEN [av |-> [WriteFrame(e.av, e.pkt, writeOk) EXCEPT
                        !.drain_writes = @ + 1],
              got_output |-> FALSE]
        ELSE [av |-> e.av, got_output |-> FALSE]

\* Lines 405-429: one iteration of the loop that gets the delayed frames.
DrainLoop(a, writeOk) ==
    LET e == EncodeVideo2(a, NULL, FALSE)
    IN  IF e.got_output
        THEN [av |-> [WriteFrame(e.av, e.pkt, writeOk) EXCEPT
                        !.drain_writes = @ + 1],
              got_output |-> TRUE]
        ELSE [av |-> e.av, got_output |-> FALSE]

DrainStep ==
    /\ pc = "drain"
    /\ UNCHANGED <<req, reg, flip>>
    /\ IF av.codec_open
       THEN \E encOk \in BOOLEAN, writeOk \in BOOLEAN :
              IF ~encOk
              THEN /\ DropPanic("Error encoding frame.")
                   /\ av' = [av EXCEPT !.null_submits = @ + 1]
              ELSE LET d == DrainLoop(av, writeOk)
                   IN  /\ av' = d.av
                       /\ pc' = IF d.got_output THEN "drain" ELSE "free"
                       /\ UNCHANGED <<rec, unwinding, panicMsg, drops, lastCall>>
       ELSE \* The encoder context was closed and freed by an earlier drop:
            \* the call is undefined; it faults, fails, or reports no output.
            \E outcome \in {"fault", "error", "no_output"} :
              /\ av' = [av EXCEPT !.null_submits = @ + 1]
              /\ IF outcome = "error" THEN DropPanic("Error encoding frame.")
                 ELSE /\ pc' = IF outcome = "fault" THEN "aborted" ELSE "free"
                      /\ UNCHANGED <<rec, unwinding, panicMsg, drops, lastCall>>

\* avcodec_free_frame(&mut p): frees the frame and nulls the pointer; a null
\* pointer is left alone.
FreeFrame(m, field, kind) ==
    IF m.rec[field] = NULL THEN m
    ELSE [m EXCEPT !.rec[field] = NULL, !.av = Release(@, kind)]

\* Lines 431-438: close the encoder, free its context and both frames.
FreeThings ==
    /\ pc = "free"
    /\ LET closed == [av EXCEPT !.codec_open = FALSE]
           freed == Release(closed, "codec_context")
           m == FreeFrame(FreeFrame(Call(rec, freed), "frame", "frame"),
                          "tmp_frame", "tmp_frame")
       IN  /\ rec' = m.rec
           /\ av' = m.av
           /\ \* av_free of a context that was already freed is undefined: it
              \* faults or goes unnoticed.
              \E fault \in BOOLEAN :
                /\ fault => av.rel["codec_context"] >= av.acq["codec_context"]
                /\ pc' = IF fault THEN "aborted" ELSE "dropped"
    /\ UNCHANGED <<unwinding, panicMsg, drops, lastCall, req, reg, flip>>

Next ==
    \/ InitCall
    \/ SnapCall
    \/ DropEnter
    \/ DrainStep
    \/ FreeThings

Spec == Init /\ [][Next]_vars

\* Recorder::new, lines 89-91: every tunable at its default.
InitNew ==
    /\ \E path \in Paths, w \in 1..MaxDim, h \in 1..MaxDim :
            rec = NewRecorder(path, w, h, <<1, 60>>, PIX_FMT_YUV420P)
    /\ av = NewToolkit
    /\ pc = "live"
    /\ unwinding = FALSE
    /\ panicMsg = NoPanic
    /\ drops = 0
    /\ lastCall = "new"
    /\ req = NoReq
    /\ reg = NoThreads
    /\ flip = NoFlip

\* A session made by Recorder::new; a drop that has started keeps executing:
\* its loop takes its next iteration and the frees follow the loop.
DropSpec ==
    InitNew /\ [][Next]_vars /\ WF_vars(DrainStep) /\ WF_vars(FreeThings)

\* A session whose constructor arguments are remembered, under init and snap.
CtorInit ==
    /\ \E path \in Paths, w \in 1..MaxDim, h \in 1..MaxDim,
          tb \in TimeBases, pf \in PixFmts :
            /\ rec = NewRecorder(path, w, h, tb, pf)
            /\ req = <<w, h>>
    /\ av = NewToolkit
    /\ pc = "live"
    /\ unwinding = FALSE
    /\ panicMsg = NoPanic
    /\ drops = 0
    /\ lastCall = "new"
    /\ reg = NoThreads
    /\ flip = NoFlip

CtorNext ==
    \/ InitCall
    \/ SnapCall

CtorSpec == CtorInit /\ [][CtorNext]_vars

\* ------------------------------------------- the registration guard, line 41
\* (variant: a thread that finds the registration still running runs it too)
OnceClaimsUnlessComplete(state) == state # "COMPLETE"

\* Once::call_once: the caller that finds the guard untouched runs the closure.
OnceClaims(state) == state = "INCOMPLETE"

\* A thread calls Recorder::new_with_params.
NewEnter ==
    /\ \E t \in Threads :
          /\ reg.tpc[t] = "idle"
          /\ reg.made[t] < MaxNew
          /\ reg' = [reg EXCEPT !.tpc[t] = "call_once"]
    /\ UNCHANGED <<session, req, flip>>

\* Line 115: call_once.  The first caller takes the guard and runs the
\* closure; a caller that finds the closure running waits until it is done; a
\* caller that finds it done goes on.
CallOnce ==
    /\ \E t \in Threads :
          /\ reg.tpc[t] = "call_once"
          /\ IF OnceClaims(reg.once)
             THEN reg' = [reg EXCEPT !.once = "RUNNING", !.tpc[t] = "closure"]
             ELSE /\ reg.once = "COMPLETE"
                  /\ reg' = [reg EXCEPT !.tpc[t] = "build"]
    /\ UNCHANGED <<session, req, flip>>

\* Line 116: av_register_all, inside the closure.
RegisterAll ==
    /\ \E t \in Threads :
          /\ reg.tpc[t] = "closure"
          /\ reg' = [reg EXCEPT !.registered = @ + 1, !.tpc[t] = "registered"]
    /\ UNCHANGED <<session, req, flip>>

\* Lines 117-118: the closure returns and call_once marks the guard done.
OnceDone ==
    /\ \E t \in Threads :
          /\ reg.tpc[t] = "registered"
          /\ reg' = [reg EXCEPT !.once = "COMPLETE", !.tpc[t] = "build"]
    /\ UNCHANGED <<session, req, flip>>

\* Lines 120-149: the struct is built and the constructor returns.
NewBuild ==
    /\ \E t \in Threads :
          /\ reg.tpc[t] = "build"
          /\ reg' = [reg EXCEPT !.made[t] = @ + 1, !.tpc[t] = "idle"]
    /\ UNCHANGED <<session, req, flip>>

\* Threads constructing recorders; the session of the other specifications
\* stays as constructed.
OnceInit ==
    /\ rec = NewRecorder("out.mp4", 2, 2, <<1, 60>>, PIX_FMT_YUV420P)
    /\ av = NewToolkit
    /\ pc = "live"
    /\ unwinding = FALSE
    /\ panicMsg = NoPanic
    /\ drops = 0
    /\ lastCall = "new"
    /\ req = NoReq
    /\ reg = NoThreads
    /\ flip = NoFlip

OnceNext ==
    \/ NewEnter
    \/ CallOnce
    \/ RegisterAll
    \/ OnceDone
    \/ NewBuild

OnceSpec == OnceInit /\ [][OnceNext]_vars

\* -------------------------------------------------------- vflip, lines 443-450
Bytes == 0..2

Bufs == UNION {[1..n -> Bytes] : n \in 0..MaxBufLen}

\* (variant: one element copied over the other)
SwapCopy(vec, a, b) == [vec EXCEPT ![a + 1] = vec[b + 1]]

\* vec.swap(a, b), on zero-based indices.
Swap(vec, a, b) == [vec EXCEPT ![a + 1] = vec[b + 1], ![b + 1] = vec[a + 1]]

\* (variant: the outer loop runs over every row)
VflipRowsAll(height) == height

\* Line 444: the rows the outer loop visits, 0..height / 2.
VflipRows(height) == height \div 2

\* Lines 444-448 from the k-th swap on, k = j * width + i.  A swap whose index
\* is outside the slice panics and leaves the earlier swaps done.
RECURSIVE VflipFrom(_, _, _, _)
VflipFrom(f, width, height, k) ==
    IF k >= VflipRows(height) * width THEN f
    ELSE LET j == k \div width
             i == k % width
             a == (height - j - 1) * width + i
             b == j * width + i
         IN  IF a >= Len(f.vec) \/ b >= Len(f.vec)
             THEN [f EXCEPT !.panic = TRUE]
             ELSE VflipFrom([f EXCEPT !.vec = Swap(@, a, b)], width, height, k + 1)

vflip(vec, width, height) ==
    VflipFrom([vec |-> vec, panic |-> FALSE], width, height, 0)

\* One call of vflip on the buffer, as snap makes it at line 175.
Vflip ==
    /\ flip.flips < MaxFlips
    /\ ~flip.panic
    /\ LET f == vflip(flip.vec, flip.width, flip.height)
       IN  flip' = [flip EXCEPT !.vec = f.vec, !.panic = f.panic,
                                !.flips = @ + 1]
    /\ UNCHANGED <<session, req, reg>>

\* Any buffer, row stride and row count.
FlipInit ==
    /\ \E v \in Bufs, w \in 0..MaxStride, h \in 0..MaxRows :
          flip = [vec |-> v, orig |-> v, width |-> w, height |-> h,
                  flips |-> 0, panic |-> FALSE]
    /\ rec = NewRecorder("out.mp4", 2, 2, <<1, 60>>, PIX_FMT_YUV420P)
    /\ av = NewToolkit
    /\ pc = "live"
    /\ unwinding = FALSE
    /\ panicMsg = NoPanic
    /\ drops = 0
    /\ lastCall = "new"
    /\ req = NoReq
    /\ reg = NoThreads

FlipNext ==
    \/ Vflip

FlipSpec == FlipInit /\ [][FlipNext]_vars

\* ------------------------------------------------------------ session state
Uninitialized == drops = 0 /\ ~rec.initialized
Ready == drops = 0 /\ rec.initialized /\ pc = "live"
Closed == drops >= 1 /\ pc = "dropped"

TypeOK ==
    /\ pc \in {"live", "unwinding", "drain", "free", "dropped", "aborted"}
    /\ drops \in 0..MaxDrops
    /\ lastCall \in {"new", "init", "snap", "drop"}
    /\ rec.curr_frame_index \in 0..MaxSnaps
    /\ unwinding \in BOOLEAN

\* ---------------------------------------------------------------- history
\* The packets in the container output, in write order.
Packets == SelectSeq(av.output, LAMBDA o : o.kind = "packet")

PacketPts == [i \in 1..Len(Packets) |-> Packets[i].pts]

\* A session that reached Ready, was disposed once or more, and in which no
\* toolkit call reported a failure that the code acts on.
DisposedReady == Closed /\ rec.initialized /\ panicMsg = NoPanic

\* ----------------------------------------------------------------- claims
\* C1: after a Ready session is disposed with an encoder that buffered frames
\* and never failed, every captured frame's packet was handed to the container
\* (N write calls for N frames, none left in the encoder), and when no write
\* failed the container holds exactly the N packets of the N frames.
C1_DrainWritesEveryFrame ==
    DisposedReady =>
        /\ av.buffered = <<>>
        /\ Len(Packets) + av.write_errors = rec.curr_frame_index
        /\ av.write_errors = 0 => PacketPts = av.submitted

C1_Witness ==
    /\ DisposedReady
    /\ drops = 1
    /\ rec.curr_frame_index >= 2
    /\ av.drain_writes >= 2
    /\ av.write_errors = 0

C3_PtsIsRescaledCounter ==
    \A k \in 1..Len(av.submitted) :
        av.submitted[k] = av_rescale_q(k, av.ctx_tb, av.st_tb)

\* C4: after a Ready session is disposed the container output is the header,
\* then packets only, then exactly one trailer, written last.
C4_TrailerAfterPackets ==
    DisposedReady =>
        /\ Len(av.output) >= 2
        /\ av.output[1] = Header
        /\ av.output[Len(av.output)] = Trailer
        /\ \A i \in 2..(Len(av.output) - 1) : av.output[i].kind = "packet"

\* C5: after a Ready session is disposed every resource it acquired has been
\* released exactly once.
C5_ReleasedExactlyOnce ==
    DisposedReady => \A k \in ResKinds : av.rel[k] = av.acq[k]

\* C6: the container format of an initialized session is the one probed from
\* the path whenever the probe succeeds, and MPEG only when it fails.
C6_ProbedFormatWins ==
    rec.initialized =>
        av.oformat = (IF GuessFormat(rec.path) # NULL
                      THEN GuessFormat(rec.path) ELSE "mpeg")

\* C7: an init call on a session that is already initialized changes nothing:
\* no field of the session, no toolkit object, no output.
C7_InitIdempotent ==
    [][(lastCall' = "init" /\ rec.initialized)
          => (rec' = rec /\ av' = av /\ pc' = pc /\ panicMsg' = panicMsg)]_vars

C7_Witness ==
    /\ lastCall = "init"
    /\ rec.initialized
    /\ rec.curr_frame_index >= 1
    /\ pc = "live"

C9_DropUninitializedNoOp ==
    [][(drops' = drops + 1 /\ ~rec.initialized)
          => (rec' = rec /\ av' = av /\ pc' = "dropped")]_vars

C9_Witness ==
    /\ Closed
    /\ ~rec.initialized
    /\ panicMsg # NoPanic
    /\ av.acq["codec_context"] = 1
    /\ \A k \in ResKinds : av.rel[k] = 0

\* C10: while the source dimensions never change, at most one colour
\* conversion context is constructed from the first snap onward, the lazy
\* initialization of that snap included.
C10_ScalerBuiltOnce ==
    Cardinality(av.wins) <= 1 => av.sws_built_in_snap <= 1

\* A step of snap that got past init: it captured one more frame.
SnapCaptured == rec'.curr_frame_index = rec.curr_frame_index + 1

\* C12: a snap in which the colour-conversion context could not be created
\* aborts the session (it does not stay live): no conversion through the
\* missing context (so no fault in sws_scale), no frame submitted to the
\* encoder, no packet written.
C12_AbortOnNullScaler ==
    [][(SnapCaptured /\ av'.sws.null)
          => /\ panicMsg' # "SIGSEGV"
             /\ av'.submitted = av.submitted
             /\ av'.output = av.output
             /\ pc' # "live"]_vars

\* C16: once an encoder submission of snap has failed, the session submits
\* nothing more to the encoder (drain submissions included) and writes nothing
\* more to the container.
C16_NoSubmissionAfterEncodeFailure ==
    [][(unwinding /\ panicMsg = "Error encoding frame.")
          => /\ av'.null_submits = av.null_submits
             /\ av'.submitted = av.submitted
             /\ av'.output = av.output]_vars

\* C17: a failed packet write terminates the session: after it the session
\* captures nothing, submits nothing and writes nothing.
C17_WriteFailureTerminates ==
    [][av.write_errors > 0
          => /\ rec'.curr_frame_index = rec.curr_frame_index
             /\ av'.submitted = av.submitted
             /\ av'.null_submits = av.null_submits
             /\ av'.output = av.output]_vars

\* C18: whenever a frame has been captured, submitted or written, the setup
\* had completed (session initialized, encoder opened, output file opened),
\* and the first thing in the container output is the header.
C18_SetupBeforeCapture ==
    /\ (rec.curr_frame_index > 0 \/ av.submitted # <<>>)
          => /\ rec.initialized
             /\ av.codec_opens = 1
             /\ av.acq["output_file"] = 1
             /\ av.output # <<>>
    /\ av.output # <<>> => av.output[1] = Header

C18_Witness ==
    /\ rec.curr_frame_index >= 1
    /\ av.sws_built_in_snap >= 1
    /\ Len(Packets) >= 1
    /\ pc = "live"

\* C19: after a snap the pixel format the colour converter writes is the one
\* the encoder context was opened with, the one of the encode frame and the
\* one its buffer was sized for.
C19_ConverterFormatAgrees ==
    (rec.curr_frame_index >= 1 /\ ~av.sws.null)
        => /\ av.sws.dstFmt = av.ctx_pix_fmt
           /\ av.sws.dstFmt = av.frame_fmt
           /\ av.sws.dstFmt = av.buf_fmt

\* C20: the drain loop of drop terminates and the drop completes: every
\* iteration that stays in the loop has taken one frame out of the encoder's
\* finite delay buffer, an iteration that produced no packet leaves the loop,
\* and a drop that entered the loop ends (closed, or the process aborted).
C20_DrainTerminates ==
    /\ [][(pc = "drain" /\ pc' = "drain")
             => Len(av'.buffered) < Len(av.buffered)]_vars
    /\ [][(pc = "drain" /\ av'.null_submits = av.null_submits + 1
              /\ av'.output = av.output
              /\ av'.write_errors = av.write_errors)
             => pc' # "drain"]_vars
    /\ (pc = "drain") ~> (pc \in {"dropped", "aborted"})

C20_Witness ==
    /\ Closed
    /\ drops = 1
    /\ panicMsg = NoPanic
    /\ av.null_submits = 3
    /\ Len(Packets) = 2

\* C13: the stored width and height are the requested ones rounded up to the
\* nearest even value (the request itself when even, the request plus one when
\* odd), at construction and after any init and snap.
C13_DimsRoundedUpToEven ==
    /\ rec.width % 2 = 0
    /\ rec.height % 2 = 0
    /\ rec.width = IF req[1] % 2 = 0 THEN req[1] ELSE req[1] + 1
    /\ rec.height = IF req[2] % 2 = 0 THEN req[2] ELSE req[2] + 1

C13_Witness ==
    /\ req = <<1, 2>>
    /\ rec.initialized
    /\ rec.curr_frame_index >= 1
    /\ <<4, 2>> \in av.wins

\* C11: av_register_all has run at most once, whatever the number of
\* constructions and threads, and a constructor call that is past call_once
\* or has returned finds the registration completed.
C11_RegisteredOnce ==
    /\ reg.registered <= 1
    /\ \A t \in Threads :
          (reg.tpc[t] = "build" \/ reg.made[t] > 0)
              => (reg.registered = 1 /\ reg.once = "COMPLETE")

C11_Witness ==
    /\ reg.registered = 1
    /\ \A t \in Threads : reg.made[t] >= 1
    /\ reg.made[1] >= 2

\* The buffer is long enough for the rows vflip is asked to reverse.
FlipInRange == Len(flip.orig) >= flip.width * flip.height

\* C14: applying vflip twice to a buffer of at least stride * height bytes
\* gives back the original buffer exactly.
C14_VflipInvolution ==
    (flip.flips = 2 /\ FlipInRange) => (~flip.panic /\ flip.vec = flip.orig)

C14_Witness ==
    /\ flip.flips = 2
    /\ flip.width = 2
    /\ flip.height = 3
    /\ Len(flip.orig) = 6
    /\ flip.orig[1] # flip.orig[5]
    /\ ~flip.panic

\* C15: after one vflip, row r holds what row height - 1 - r held before, for
\* every row (so the middle row of an odd count is unchanged), and the bytes
\* beyond stride * height are unchanged.
C15_VflipReversesRows ==
    (flip.flips = 1 /\ FlipInRange) =>
        /\ ~flip.panic
        /\ Len(flip.vec) = Len(flip.orig)
        /\ \A r \in 0..(flip.height - 1), i \in 0..(flip.width - 1) :
              flip.vec[r * flip.width + i + 1]
                  = flip.orig[(flip.height - 1 - r) * flip.width + i + 1]
        /\ \A k \in (flip.width * flip.height + 1)..Len(flip.orig) :
              flip.vec[k] = flip.orig[k]

C15_Witness ==
    /\ flip.flips = 1
    /\ flip.width = 1
    /\ flip.height = 3
    /\ Len(flip.orig) = 5
    /\ flip.orig[1] # flip.orig[3]
    /\ flip.vec # flip.orig

====
